---- MODULE Spec2Model ----
(***************************************************************************)
(* Model of src/bot.js: the Palworld live-map bot.                         *)
(*                                                                         *)
(* State: the persisted state file (bindings per Discord guild, in key     *)
(* insertion order, and the colour table per Palworld guild), the          *)
(* re-entrancy flag `running`, and the locals of each tick() invocation    *)
(* (one per caller: the periodic timer, and a slash-command handler).      *)
(* Every await of the source is a separate step, so that command handlers  *)
(* interleave with a cycle exactly where the event loop lets them.         *)
(* The /palmap status sub-command only replies; it changes no state and    *)
(* has no action.                                                          *)
(*                                                                         *)
(* Spec is the bot as a whole. The functions a cycle calls are also        *)
(* specified one at a time, on inputs drawn from small sets: SpecColors    *)
(* (pickColorForGuild), SpecCoords (worldToPixel), SpecSnapshot            *)
(* (fetchSnapshotData's data and hash, renderSnapshot) and SpecIcons       *)
(* (getTintedIcon).                                                        *)
(***************************************************************************)
EXTENDS Integers, Sequences, FiniteSets, TLC

\* ---------------------------------------------------------------- bounds
MaxCalls == 2      \* tick() calls (periodic or triggered) in one behaviour
MaxCmds == 1       \* add / remove / force commands in one behaviour
MaxMsgs == 2       \* messages the bot can post in one behaviour
MaxPicks == 3      \* pickColorForGuild calls in one behaviour of SpecColors
MaxPlayers == 2    \* players in one answer of the player feed
MaxIcons == 4      \* getTintedIcon calls in one behaviour of SpecIcons

\* ------------------------------------------------------------ value sets
Null == "null"
Guilds == {"g1", "g2"}                 \* Discord guild ids (destinations)
Channels == {"c1", "c2"}               \* text channels
Hashes == {"h1", "h2"}                 \* snapshot fingerprints
PalGuilds == {"p1", "p2"}              \* Palworld guild ids seen in telemetry
Ctx == {"timer", "cmd"}                \* callers of tick()

\* GUILD_COLORS, by palette position.
GUILD_COLORS ==
  << "#ff0000", "#3498DB", "#2ECC71", "#F1C40F", "#9B59B6", "#E67E22", "#ff21e1",
     "#95A5A6", "#00ffff", "#FF5722", "#8BC34A", "#5e6f9e", "#004953" >>

\* Palworld guilds that earlier runs may have left in the colour table.
Legacy == { "old" \o ToString(i) : i \in 1..Len(GUILD_COLORS) }
PalIds == PalGuilds \cup Legacy
NoColor == "none"

Range(s) == { s[i] : i \in 1..Len(s) }

\* A message id carries the channel it was posted in.
NoMsg == [ch |-> Null, n |-> 0]
MsgIds == [ch : Channels, n : 0..(MaxMsgs + 1)]

\* A binding as add writes it (src 608-611).
NullTime == -1
NewBinding(c) ==
  [channelId |-> c, messageId |-> NoMsg, lastHash |-> Null, lastUpdatedAt |-> NullTime]
NoBinding == NewBinding(Null)

VARIABLES
  file,        \* the state file: [guilds, order, colors]
  running,     \* the re-entrancy flag
  tk,          \* locals of tick(), by caller
  pending,     \* <<guild, command>> of the add/force handlers that have replied
               \* and are about to call tick()
  env,         \* which credentials / endpoints the environment sets
  nextMsg,     \* messages posted so far + 1
  calls,       \* tick() calls so far
  cmds,        \* commands so far
  clock,       \* cycles started so far (the wall clock)
  ended,       \* history: how the last tick() that ran returned
  lastEdit,    \* history: the last successful msg.edit (guild, fingerprint, cycle)
               \* of a run in which no command has been issued yet
  detached,    \* history: guilds removed and not attached since
  steps,       \* function-level specifications: calls made so far
  lastPick,    \* the last pickColorForGuild call: its guild and what it returned
  point,       \* a world position handed to worldToPixel
  pixel,       \* what worldToPixel returned for it (a set: empty before the call)
  prev,        \* what fetchSnapshotData returned in the cycle before
  cur,         \* what fetchSnapshotData returned in this cycle
  drawn,       \* what renderSnapshot composited for cur (a set: empty before the call)
  tintedCache, \* the tinted-icon caches: per icon, the entries (key, bytes)
  asked,       \* history: the getTintedIcon requests that have returned
  lastIcon     \* the last getTintedIcon request that returned, and how

\* The state of the bot, and the state of the function-level specifications
\* (which call one function of the source at a time).
botVars == << file, running, tk, pending, env, nextMsg, calls, cmds, clock,
              ended, lastEdit, detached >>
coordVars == << point, pixel >>
snapVars == << prev, cur, drawn >>
iconVars == << tintedCache, asked, lastIcon >>
fnVars == << steps, lastPick, coordVars, snapVars, iconVars >>
vars == << botVars, fnVars >>

\* ------------------------------------------------------------ state file

\* loadState: the parsed content of the state file (a fresh copy).
LoadState == file

\* saveState: the whole in-memory state replaces the file.
SaveState(state) == file' = state

\* Object.entries(state.guilds): the bindings in key insertion order.
Entries(state) ==
  [ i \in 1..Len(state.order) |->
      [guildId |-> state.order[i], cfg |-> state.guilds[state.order[i]]] ]

HasKey(state, g) == g \in Range(state.order)

\* state.guilds[guildId] ??= {} followed by assignments of all four fields.
WithBinding(state, g, b) ==
  [state EXCEPT !.guilds[g] = b,
                !.order = IF HasKey(state, g) THEN @ ELSE Append(@, g)]

\* delete state.guilds[guildId]
WithoutBinding(state, g) ==
  [state EXCEPT !.guilds[g] = NoBinding,
                !.order = SelectSeq(@, LAMBDA k : k # g)]

\* --------------------------------------------------------- guild colours

UsedColors(colors) == { colors[p] : p \in PalIds } \ {NoColor}

\* GUILD_COLORS.filter(c => !used.has(c))
Available_Unfiltered(colors) == GUILD_COLORS
Available(colors) == SelectSeq(GUILD_COLORS, LAMBDA c : c \notin UsedColors(colors))

\* Whether pickColorForGuild assigns: the guild has no colour yet.
NeedsColor_Always(colors, p) == TRUE
NeedsColor(colors, p) == colors[p] = NoColor

\* pickColorForGuild: the colour tables it can leave (one, or any palette
\* entry when the palette is used up and Math.random decides).
PickColorForGuild(colors, p) ==
  IF NeedsColor(colors, p)
  THEN LET available == Available(colors)
           choice == IF Len(available) > 0 THEN {available[1]} ELSE Range(GUILD_COLORS)
       IN { [colors EXCEPT ![p] = c] : c \in choice }
  ELSE {colors}

\* pickColorForGuild for each guild of a list, in order.
RECURSIVE PickAll(_, _)
PickAll(colors, ps) ==
  IF ps = << >> THEN {colors}
  ELSE UNION { PickAll(c, Tail(ps)) : c \in PickColorForGuild(colors, Head(ps)) }

\* -------------------------------------------------------------- tick()

NoData == [hash |-> Null, guildsJson |-> << >>]
EmptyState ==
  [guilds |-> [g \in Guilds |-> NoBinding], order |-> << >>,
   colors |-> [p \in PalIds |-> NoColor]]

IdleTick ==
  [pc |-> "idle", force |-> Null, entries |-> << >>, idx |-> 0, data |-> NoData,
   fresh |-> EmptyState, msg |-> NoMsg, fx |-> {}, visited |-> {}]

NoEdit == [guild |-> Null, hash |-> Null, cycle |-> 0]

\* What a cycle did for a guild: "send" (placeholder posted), "skip" (early
\* return on an unchanged fingerprint), "render" (renderSnapshot called),
\* "edit" (msg.edit succeeded).
Fx(kind, g, ch) == [kind |-> kind, guild |-> g, channel |-> ch]

\* if (running) return;
TickGuard_Off == FALSE
TickGuard == running

\* running = true;
RunningAtStart_Unset == FALSE
RunningAtStart == TRUE

\* The loop's two `continue` tests (src 553-554).
Eligible_AnyGuild(e, forceGuildId) == e.cfg.channelId # Null
Eligible(e, forceGuildId) ==
  /\ e.cfg.channelId # Null
  /\ (forceGuildId = Null \/ e.guildId = forceGuildId)

\* force: forceGuildId === guildId
IsForced(e, forceGuildId) == forceGuildId = e.guildId

\* if (!force && cfg.lastHash && cfg.lastHash === data.hash) return;
SkipRender_IgnoreForce(force, cfg, hash) == cfg.lastHash # Null /\ cfg.lastHash = hash
SkipRender_Never(force, cfg, hash) == FALSE
SkipRender(force, cfg, hash) ==
  /\ ~force
  /\ cfg.lastHash # Null
  /\ cfg.lastHash = hash

\* The guilds a cycle has to reconcile.
EligibleGuilds(entries, forceGuildId) ==
  { entries[i].guildId : i \in { j \in 1..Len(entries) : Eligible(entries[j], forceGuildId) } }

Cur(t) == t.entries[t.idx]

\* finally { running = false } and the return of tick().
EndCycle_KeepRunning(ctx, outcome) ==
  /\ running' = running
  /\ tk' = [tk EXCEPT ![ctx] = IdleTick]
  /\ ended' = outcome
EndCycle(ctx, outcome) ==
  /\ running' = FALSE
  /\ tk' = [tk EXCEPT ![ctx] = IdleTick]
  /\ ended' = outcome

\* The loop moves to the next entry: doUpdateForGuild returned, or its
\* rejection was caught by .catch(err => console.error(...)).
NextEntry_Abort(t) ==
  [t EXCEPT !.idx = Len(t.entries) + 1, !.pc = "loop", !.fresh = EmptyState, !.msg = NoMsg]
NextEntry(t) ==
  [t EXCEPT !.idx = @ + 1, !.pc = "loop", !.fresh = EmptyState, !.msg = NoMsg]

\* The first entry from t.idx on that passes the loop's continue tests.
NextIdx(t) ==
  LET cand == { j \in t.idx..Len(t.entries) : Eligible(t.entries[j], t.force) }
  IN IF cand = {} THEN Len(t.entries) + 1
     ELSE CHOOSE j \in cand : \A k \in cand : j <= k

\* `for (const [guildId, cfg] of guildEntries)` from entry t.idx on, as far as
\* it runs without an await: the skipped entries, then loadState (which
\* reads `state`, the file as this step leaves it) and doUpdateForGuild up to
\* its first await; or the end of the loop, finally and return.
Continue(ctx, t, state) ==
  LET j == NextIdx(t) IN
  IF j > Len(t.entries)
  THEN /\ running' = FALSE
       /\ tk' = [tk EXCEPT ![ctx] = IdleTick]
       /\ ended' = "done"
  ELSE /\ tk' = [tk EXCEPT ![ctx] =
                  [t EXCEPT !.idx = j, !.pc = "guildFetch", !.fresh = state,
                            !.visited = @ \cup {t.entries[j].guildId}]]
       /\ UNCHANGED << running, ended >>

\* doUpdateForGuild awaits again (t.pc names the await), or is over.
Resume(ctx, t, state) ==
  IF t.pc = "loop"
  THEN Continue(ctx, t, state)
  ELSE tk' = [tk EXCEPT ![ctx] = t] /\ UNCHANGED << running, ended >>

\* catch (err) { console.error("Tick error:", err); } finally { ... }
OnTickError_Resume(ctx) == Continue(ctx, tk[ctx], LoadState)
OnTickError(ctx) == EndCycle(ctx, "error")

\* if (guildEntries.length === 0) return;
NothingBound_Never(guildEntries) == FALSE
NothingBound(guildEntries) == Len(guildEntries) = 0

\* tick({ forceGuildId }) up to its first await.
TickCall(ctx, forceGuildId) ==
  /\ calls' = calls + 1
  /\ UNCHANGED << file, env, nextMsg, cmds, lastEdit, detached, fnVars >>
  /\ IF TickGuard
     THEN UNCHANGED << running, tk, clock, ended >>
     ELSE /\ tk[ctx].pc = "idle"
          /\ clock' = clock + 1
          /\ LET state == LoadState
                 guildEntries == Entries(state)
             IN IF NothingBound(guildEntries)
                THEN /\ running' = FALSE
                     /\ tk' = [tk EXCEPT ![ctx] = IdleTick]
                     /\ ended' = "empty"
                ELSE /\ running' = RunningAtStart
                     /\ tk' = [tk EXCEPT ![ctx] =
                                 [IdleTick EXCEPT !.pc = "fetchPlayers",
                                                  !.force = forceGuildId,
                                                  !.entries = guildEntries, !.idx = 1]]
                     /\ UNCHANGED ended

\* setInterval(() => tick(), ...) and the tick() of ClientReady.
TimerTick ==
  /\ calls < MaxCalls
  /\ TickCall("timer", Null)
  /\ UNCHANGED pending

\* await tick({ forceGuildId: guildId }) of an add or force handler.
TriggerTick(g, cmd) ==
  /\ calls < MaxCalls
  /\ << g, cmd >> \in pending
  /\ pending' = pending \ {<< g, cmd >>}
  /\ TickCall("cmd", g)

Frame == UNCHANGED << pending, env, calls, cmds, clock, detached, fnVars >>

\* fetchPlayers: throws on a missing credential or endpoint, a non-ok status
\* or a transport failure.
FetchPlayersFail(ctx) ==
  /\ tk[ctx].pc = "fetchPlayers"
  /\ OnTickError(ctx)
  /\ UNCHANGED << file, nextMsg, lastEdit >> /\ Frame

FetchPlayersOk(ctx) ==
  /\ tk[ctx].pc = "fetchPlayers"
  /\ env # "noPlayers"
  /\ tk' = [tk EXCEPT ![ctx].pc = "fetchGuilds"]
  /\ UNCHANGED << file, running, nextMsg, ended, lastEdit >> /\ Frame

FetchGuildsFail(ctx) ==
  /\ tk[ctx].pc = "fetchGuilds"
  /\ OnTickError(ctx)
  /\ UNCHANGED << file, nextMsg, lastEdit >> /\ Frame

\* The telemetry a fetch can return: the guild feed's keys in JSON order,
\* and the fingerprint of the players and camps.
GuildsJsons == { << "p1" >>, << "p2", "p1" >> }

\* fetchGuilds succeeds; the rest of fetchSnapshotData runs without an await
\* (loadState, pickColorForGuild for every guild of the feed, saveState,
\* hash), and so does the loop up to the first doUpdateForGuild.
FetchGuildsOk(ctx) ==
  /\ tk[ctx].pc = "fetchGuilds"
  /\ env # "noGuilds"
  /\ \E guildsJson \in GuildsJsons, hash \in Hashes :
       \E colors \in PickAll(LoadState.colors, guildsJson) :
         LET state == [LoadState EXCEPT !.colors = colors]
             data == [hash |-> hash, guildsJson |-> guildsJson]
         IN /\ SaveState(state)
            /\ Continue(ctx, [tk[ctx] EXCEPT !.data = data], state)
  /\ UNCHANGED << nextMsg, lastEdit >> /\ Frame

\* client.guilds.fetch(guildId).catch(() => null); if (!guild) return;
GuildFetchFail(ctx) ==
  /\ tk[ctx].pc = "guildFetch"
  /\ Resume(ctx, NextEntry(tk[ctx]), file)
  /\ UNCHANGED << file, nextMsg, lastEdit >> /\ Frame

GuildFetchOk(ctx) ==
  /\ tk[ctx].pc = "guildFetch"
  /\ tk' = [tk EXCEPT ![ctx].pc = "chanFetch"]
  /\ UNCHANGED << file, running, nextMsg, ended, lastEdit >> /\ Frame

\* client.channels.fetch(cfg.channelId) fails or is no text channel.
ChanFetchFail(ctx) ==
  /\ tk[ctx].pc = "chanFetch"
  /\ Resume(ctx, NextEntry(tk[ctx]), file)
  /\ UNCHANGED << file, nextMsg, lastEdit >> /\ Frame

\* if (cfg.messageId) of ensureMessage.
HasMessage_Never(cfg) == FALSE
HasMessage(cfg) == cfg.messageId # NoMsg

\* The channel resolves and ensureMessage runs up to its first await:
\* it throws when the state it was given has no binding for the guild,
\* fetches the recorded message when there is one, and sends otherwise.
ChanFetchOk(ctx) ==
  LET t == tk[ctx]
      g == Cur(t).guildId
  IN
  /\ t.pc = "chanFetch"
  /\ Resume(ctx, IF ~HasKey(t.fresh, g) THEN NextEntry(t)
                 ELSE IF HasMessage(t.fresh.guilds[g])
                      THEN [t EXCEPT !.pc = "msgFetch"]
                      ELSE [t EXCEPT !.pc = "send"],
            file)
  /\ UNCHANGED << file, nextMsg, lastEdit >> /\ Frame

\* After ensureMessage: the early return on an unchanged fingerprint,
\* or on to renderSnapshot.
Decide(t) ==
  IF SkipRender(IsForced(Cur(t), t.force), Cur(t).cfg, t.data.hash)
  THEN NextEntry([t EXCEPT !.fx = @ \cup {Fx("skip", Cur(t).guildId, Cur(t).cfg.channelId)}])
  ELSE [t EXCEPT !.pc = "render",
                 !.fx = @ \cup {Fx("render", Cur(t).guildId, Cur(t).cfg.channelId)}]

\* channel.messages.fetch(cfg.messageId) finds the message: it must be a
\* message of the channel that was fetched.
MsgFetchOk(ctx) ==
  LET t == tk[ctx]
      g == Cur(t).guildId
      id == t.fresh.guilds[g].messageId
  IN
  /\ t.pc = "msgFetch"
  /\ id.ch = Cur(t).cfg.channelId
  /\ Resume(ctx, Decide([t EXCEPT !.msg = id]), file)
  /\ UNCHANGED << file, nextMsg, lastEdit >> /\ Frame

\* The recorded message is deleted or not found: on to channel.send.
MsgFetchFail(ctx) ==
  /\ tk[ctx].pc = "msgFetch"
  /\ tk' = [tk EXCEPT ![ctx].pc = "send"]
  /\ UNCHANGED << file, running, nextMsg, ended, lastEdit >> /\ Frame

\* channel.send rejects: ensureMessage throws.
SendFail(ctx) ==
  /\ tk[ctx].pc = "send"
  /\ Resume(ctx, NextEntry(tk[ctx]), file)
  /\ UNCHANGED << file, nextMsg, lastEdit >> /\ Frame

\* channel.send posts the placeholder; cfg.messageId = msg.id; saveState(state)
\* on the state doUpdateForGuild was given.
SendOk(ctx) ==
  LET t == tk[ctx]
      g == Cur(t).guildId
      ch == Cur(t).cfg.channelId
      id == [ch |-> ch, n |-> nextMsg]
      state == [t.fresh EXCEPT !.guilds[g].messageId = id]
  IN
  /\ t.pc = "send"
  /\ nextMsg <= MaxMsgs
  /\ nextMsg' = nextMsg + 1
  /\ SaveState(state)
  /\ Resume(ctx, Decide([t EXCEPT !.fresh = state, !.msg = id,
                                  !.fx = @ \cup {Fx("send", g, ch)}]),
            state)
  /\ UNCHANGED lastEdit /\ Frame

\* renderSnapshot on the state doUpdateForGuild was given: pickColorForGuild
\* for the guilds of the snapshot's camps and players (each saves that state
\* when it assigns), then the compositing, which may throw.
RenderColors(ctx) ==
  LET t == tk[ctx] IN
  \E colors \in PickAll(t.fresh.colors, t.data.guildsJson) :
    LET state == [t.fresh EXCEPT !.colors = colors]
        now == IF colors # t.fresh.colors THEN state ELSE file
    IN /\ SaveState(now)
       /\ \/ Resume(ctx, [t EXCEPT !.fresh = state, !.pc = "edit"], now)
          \/ Resume(ctx, NextEntry(t), now)

Render(ctx) ==
  /\ tk[ctx].pc = "render"
  /\ RenderColors(ctx)
  /\ UNCHANGED << nextMsg, lastEdit >> /\ Frame

\* msg.edit rejects.
EditFail(ctx) ==
  /\ tk[ctx].pc = "edit"
  /\ Resume(ctx, NextEntry(tk[ctx]), file)
  /\ UNCHANGED << file, nextMsg, lastEdit >> /\ Frame

\* cfg.lastHash = data.hash; cfg.lastUpdatedAt = new Date().toISOString();
\* cfg is the binding object of the loop's entries.
Stamp(cfg, hash, now) == [cfg EXCEPT !.lastHash = hash, !.lastUpdatedAt = now]

\* saveState(state) at the end of doUpdateForGuild: state is the freshState
\* of the loop, a separate parse of the file that cfg is no part of.
StateSavedAfterEdit(t, cfg) == t.fresh

\* msg.edit succeeds, then the bookkeeping above and the return.
EditOk(ctx) ==
  LET t == tk[ctx]
      g == Cur(t).guildId
      cfg == Stamp(Cur(t).cfg, t.data.hash, clock)
      state == StateSavedAfterEdit(t, cfg)
  IN
  /\ t.pc = "edit"
  /\ SaveState(state)
  /\ Resume(ctx, NextEntry([t EXCEPT !.entries[t.idx].cfg = cfg,
                                     !.fx = @ \cup {Fx("edit", g, Cur(t).cfg.channelId)}]),
            state)
  /\ lastEdit' = IF cmds = 0
                 THEN [guild |-> g, hash |-> t.data.hash, cycle |-> clock]
                 ELSE NoEdit
  /\ UNCHANGED nextMsg /\ Frame

\* ------------------------------------------------------ /palmap commands

CmdFrame ==
  /\ lastEdit' = NoEdit
  /\ UNCHANGED << running, tk, env, nextMsg, calls, clock, ended, fnVars >>

\* /palmap add channel: (a channel that is no text channel is refused with
\* a reply and changes nothing).
Add(g, c) ==
  /\ cmds < MaxCmds
  /\ cmds' = cmds + 1
  /\ SaveState(WithBinding(LoadState, g, NewBinding(c)))
  /\ pending' = pending \cup {<< g, "add" >>}
  /\ detached' = detached \ {g}
  /\ CmdFrame

\* /palmap remove
Remove(g) ==
  /\ cmds < MaxCmds
  /\ cmds' = cmds + 1
  /\ SaveState(WithoutBinding(LoadState, g))
  /\ detached' = detached \cup {g}
  /\ UNCHANGED pending
  /\ CmdFrame

\* /palmap force: only with a binding that has a channel.
ForceCmd(g) ==
  /\ cmds < MaxCmds
  /\ cmds' = cmds + 1
  /\ HasKey(LoadState, g) /\ LoadState.guilds[g].channelId # Null
  /\ pending' = pending \cup {<< g, "force" >>}
  /\ UNCHANGED << file, detached >>
  /\ CmdFrame

\* ------------------------------------------------------- initial states

\* A binding left by an earlier run: message posted, fingerprint recorded.
SteadyBinding(c) ==
  [channelId |-> c, messageId |-> [ch |-> c, n |-> 0], lastHash |-> "h1",
   lastUpdatedAt |-> 0]

\* The state file survives restarts: it is absent (loadState gives no
\* binding), or holds bindings of earlier runs.
InitFiles ==
  { [guilds |-> [g \in Guilds |-> IF g \in Range(order) THEN b[g] ELSE NoBinding],
     order |-> order, colors |-> colors] :
      order \in { << >>, << "g1" >>, << "g1", "g2" >> },
      b \in { [g \in Guilds |-> IF g = "g1" THEN SteadyBinding("c1") ELSE NewBinding("c1")] },
      colors \in { [p \in PalIds |-> NoColor] } }

NoPick == [guild |-> Null, color |-> NoColor]

NoPoint == [x |-> 0, y |-> 0]
NoIcon ==
  [n |-> 0, basePath |-> Null, size |-> 0, colorHex |-> NoColor, buf |-> {},
   computed |-> FALSE]
Missing == "missing"

\* normalizePalId: String(id ?? "").replaceAll("-", "").toLowerCase()
NormalizePalId(id) ==
  CASE id = Missing -> ""
    [] id \in {"AA-1", "AA1"} -> "aa1"
    [] OTHER -> id
NormIds == { NormalizePalId(id) : id \in {Missing, "AA-1", "AA1", "u2"} }

\* No fetchSnapshotData has returned yet.
NoSnapshot ==
  [polled |-> FALSE, players |-> << >>, camps |-> << >>,
   playerToGuild |-> [pid \in NormIds |-> Missing], legendGuilds |-> << >>,
   hash |-> << >>, colors |-> [p \in PalIds |-> NoColor]]

\* No function-level call has been made.
FnIdle ==
  /\ steps = 0
  /\ lastPick = NoPick
  /\ point = NoPoint
  /\ pixel = {}
  /\ prev = NoSnapshot
  /\ cur = NoSnapshot
  /\ drawn = {}
  /\ tintedCache = [camp |-> {}, player |-> {}]
  /\ asked = {}
  /\ lastIcon = NoIcon

\* The bot right after start, before ClientReady.
BotIdle ==
  /\ running = FALSE
  /\ tk = [ctx \in Ctx |-> IdleTick]
  /\ pending = {}
  /\ nextMsg = 1
  /\ calls = 0
  /\ cmds = 0
  /\ clock = 0
  /\ ended = "none"
  /\ lastEdit = NoEdit
  /\ detached = {}

Init ==
  /\ file \in InitFiles
  /\ env \in {"all", "noPlayers", "noGuilds"}
  /\ BotIdle
  /\ FnIdle

Next ==
  \/ TimerTick
  \/ \E g \in Guilds, cmd \in {"add", "force"} : TriggerTick(g, cmd)
  \/ \E ctx \in Ctx : FetchPlayersOk(ctx)
  \/ \E ctx \in Ctx : FetchPlayersFail(ctx)
  \/ \E ctx \in Ctx : FetchGuildsOk(ctx)
  \/ \E ctx \in Ctx : FetchGuildsFail(ctx)
  \/ \E ctx \in Ctx : GuildFetchOk(ctx)
  \/ \E ctx \in Ctx : GuildFetchFail(ctx)
  \/ \E ctx \in Ctx : ChanFetchOk(ctx)
  \/ \E ctx \in Ctx : ChanFetchFail(ctx)
  \/ \E ctx \in Ctx : MsgFetchOk(ctx)
  \/ \E ctx \in Ctx : MsgFetchFail(ctx)
  \/ \E ctx \in Ctx : SendOk(ctx)
  \/ \E ctx \in Ctx : SendFail(ctx)
  \/ \E ctx \in Ctx : Render(ctx)
  \/ \E ctx \in Ctx : EditOk(ctx)
  \/ \E ctx \in Ctx : EditFail(ctx)
  \/ \E g \in Guilds, c \in Channels : Add(g, c)
  \/ \E g \in Guilds : Remove(g)
  \/ \E g \in Guilds : ForceCmd(g)

Spec == Init /\ [][Next]_vars

\* ------------------------------------------- pickColorForGuild by itself

\* The colour table after the first k guilds ever seen got their colours.
LegacyTable(k) ==
  [ p \in PalIds |->
      IF \E i \in 1..k : p = "old" \o ToString(i)
      THEN GUILD_COLORS[CHOOSE i \in 1..k : p = "old" \o ToString(i)]
      ELSE NoColor ]

\* pickColorForGuild(palGuildId, state) on the state just loaded: the
\* assignment and saveState(state) when the guild has no colour, and the
\* return of state.palworld.guildColors[palGuildId].
PickColor(p) ==
  /\ steps < MaxPicks
  /\ steps' = steps + 1
  /\ LET state == LoadState IN
     \E colors \in PickColorForGuild(state.colors, p) :
       /\ IF NeedsColor(state.colors, p)
          THEN SaveState([state EXCEPT !.colors = colors])
          ELSE UNCHANGED file
       /\ lastPick' = [guild |-> p, color |-> colors[p]]
  /\ UNCHANGED << running, tk, pending, env, nextMsg, calls, cmds, clock,
                  ended, lastEdit, detached, coordVars, snapVars, iconVars >>

InitColors ==
  /\ file \in { [EmptyState EXCEPT !.colors = LegacyTable(k)] : k \in 0..Len(GUILD_COLORS) }
  /\ env = "all"
  /\ BotIdle
  /\ FnIdle

NextColors == \E p \in PalIds : PickColor(p)

SpecColors == InitColors /\ [][NextColors]_vars

\* --------------------------------------------------- coordinate transform

\* WORLD_TO_MAP
transl_x == 123888
transl_y == 158000
scale == 459

\* Floating-point values are kept as the expressions that produce them: a
\* quotient n / d, and a product-sum a * v + b with a calibration
\* coefficient a and offset b of MAP_TO_PX (named, not evaluated).
Quot(n, d) == [num |-> n, den |-> d]
Lin(a, v, b) == [coef |-> a, of |-> v, plus |-> b]

\* worldToMap: translate, then swap and scale.
WorldToMap_NoSwap(worldX, worldY) ==
  [mapX |-> Quot(worldX + transl_x, scale), mapY |-> Quot(worldY - transl_y, scale)]
WorldToMap(worldX, worldY) ==
  LET newX == worldX + transl_x
      newY == worldY - transl_y
  IN [mapX |-> Quot(newY, scale), mapY |-> Quot(newX, scale)]

\* mapToPixel
MapToPixel(mapX, mapY) ==
  [px |-> Lin("A", mapX, "B"), py |-> Lin("C", mapY, "D")]

\* worldToPixel
WorldToPixel(worldX, worldY) ==
  LET m == WorldToMap(worldX, worldY) IN MapToPixel(m.mapX, m.mapY)

\* World coordinates: the map's corners and centre, the origin, and a few
\* positions around them.
Worlds == { -582888, -123888, -1000, -1, 0, 1, 1000, 158000, 335112, 617000, 1000000 }

\* worldToPixel(point.x, point.y)
Convert ==
  /\ pixel = {}
  /\ pixel' = {WorldToPixel(point.x, point.y)}
  /\ UNCHANGED << botVars, steps, lastPick, point, snapVars, iconVars >>

\* The caller moves on to another position.
NextPoint ==
  /\ pixel # {}
  /\ \E x \in Worlds, y \in Worlds : point' = [x |-> x, y |-> y]
  /\ pixel' = {}
  /\ UNCHANGED << botVars, steps, lastPick, snapVars, iconVars >>

InitCoords ==
  /\ file = EmptyState
  /\ env = "all"
  /\ BotIdle
  /\ steps = 0
  /\ lastPick = NoPick
  /\ point \in [x : Worlds, y : Worlds]
  /\ pixel = {}
  /\ prev = NoSnapshot
  /\ cur = NoSnapshot
  /\ drawn = {}
  /\ tintedCache = [camp |-> {}, player |-> {}]
  /\ asked = {}
  /\ lastIcon = NoIcon

NextCoords == Convert \/ NextPoint

SpecCoords == InitCoords /\ [][NextCoords]_vars

\* ------------------------------------------ snapshot: data, hash, render

\* An optional JSON number: absent (undefined or null), or the number.
None == {}
Some(n) == {n}
IsNumber(v) == v # None
\* Number(v ?? 0)
NumberOr0(v) == IF v = None THEN 0 ELSE CHOOSE n \in v : TRUE
\* a ?? b, for strings
Coalesce(a, b) == IF a = Missing THEN b ELSE a

\* Player records of the player feed.
PlayerRecs ==
  { [playerId |-> "AA1", userId |-> Missing, name |-> "Ann", nickname |-> Missing,
     location_x |-> Some(100), location_y |-> Some(200)],
    [playerId |-> Missing, userId |-> "u2", name |-> Missing, nickname |-> "Bob",
     location_x |-> Some(0), location_y |-> Some(0)],
    [playerId |-> Missing, userId |-> Missing, name |-> "Cy", nickname |-> Missing,
     location_x |-> None, location_y |-> None],
    [playerId |-> Missing, userId |-> Missing, name |-> "Cy", nickname |-> Missing,
     location_x |-> Some(0), location_y |-> Some(50)] }

\* Answers of the player feed: up to MaxPlayers records, none twice.
PlayerFeeds ==
  { ps \in UNION { [1..n -> PlayerRecs] : n \in 0..MaxPlayers } :
      \A i, j \in 1..Len(ps) : i # j => ps[i] # ps[j] }

\* Camp records of the guild feed.
NoPos == [x |-> None, y |-> None]
CampAt(id, x, y) == [id |-> id, map_pos |-> [x |-> Some(x), y |-> Some(y)]]
CampK1 == CampAt("k1", 10, 20)
CampK1Zero == CampAt("k1", 0, 0)
CampK1NoPos == [id |-> "k1", map_pos |-> NoPos]
CampX == CampAt(Missing, 30, 40)
CampY == CampAt(Missing, 50, 60)

\* A guild of the guild feed, with its key.
GuildRec(id, name, members, camps) ==
  [id |-> id, name |-> name, members |-> members, admin |-> Missing,
   camp_count |-> Some(Len(camps)), camps |-> camps]

\* Answers of the guild feed: the guilds in JSON key order.
GuildFeeds ==
  { << >>,
    << GuildRec("p1", "Red", << "AA-1" >>, << CampK1 >>) >>,
    << GuildRec("p1", "Red", << >>, << CampK1 >>) >>,
    << GuildRec("p2", "Red", << "AA-1" >>, << CampK1 >>) >>,
    << GuildRec("p1", "Red", << "AA-1" >>, << CampK1Zero >>) >>,
    << GuildRec("p1", "Red", << "AA-1" >>, << CampK1NoPos >>) >>,
    << GuildRec("p1", "Red", << "AA-1" >>, << CampX, CampY >>) >>,
    << GuildRec("p1", "Red", << "AA-1" >>, << CampY, CampX >>) >>,
    << GuildRec("p1", "Red", << "AA-1" >>, << CampK1 >>),
       GuildRec("p2", "Blue", << >>, << CampX >>) >>,
    << GuildRec("p2", "Blue", << >>, << CampX >>),
       GuildRec("p1", "Red", << "AA-1" >>, << CampK1 >>) >> }

\* a.localeCompare(b) < 0, by the collation order of the strings in use.
LocaleOrder == << "", "AA1", "Ann", "Blue", "Bob", "Cy", "k1", "Red", "u2" >>
LocaleRank(str) == CHOOSE i \in 1..Len(LocaleOrder) : LocaleOrder[i] = str

\* Array.prototype.sort with a comparator that orders by a key (keys[i] is
\* the key of seq[i]): a stable sort, elements with equal keys keep their
\* order.
StableSort(seq, keys) ==
  LET n == Len(seq)
      Pos(i) == 1 + Cardinality({ j \in 1..n :
                       \/ keys[j] < keys[i]
                       \/ keys[j] = keys[i] /\ j < i })
  IN [ k \in 1..n |-> seq[CHOOSE i \in 1..n : Pos(i) = k] ]

\* (a.id || a.name).localeCompare(b.id || b.name)
PlayerKey(a) == LocaleRank(IF a.id # "" THEN a.id ELSE a.name)
\* a.id.localeCompare(b.id)
CampKey(a) == LocaleRank(a.id)

\* (b.campCount - a.campCount) || a.name.localeCompare(b.name)
LegendKey(g) == (0 - g.campCount) * (Len(LocaleOrder) + 1) + LocaleRank(g.name)

\* The keys of the elements of a list.
PlayerKeys(seq) == [i \in 1..Len(seq) |-> PlayerKey(seq[i])]
CampKeys(seq) == [i \in 1..Len(seq) |-> CampKey(seq[i])]
LegendKeys(seq) == [i \in 1..Len(seq) |-> LegendKey(seq[i])]

RECURSIVE Flatten(_)
Flatten(seqs) == IF seqs = << >> THEN << >> ELSE Head(seqs) \o Flatten(Tail(seqs))

\* extractCamps (world_x and world_y, which nothing reads, are left out).
ExtractCamps(guildsJson) ==
  Flatten([ i \in 1..Len(guildsJson) |->
    LET g == guildsJson[i] IN
    [ k \in 1..Len(g.camps) |->
        [guild_id |-> g.id, guild |-> g.name, camp_id |-> g.camps[k].id,
         map_x |-> g.camps[k].map_pos.x, map_y |-> g.camps[k].map_pos.y] ] ])

\* The player projection of stableSnapshotForHash.
HashedPlayer_NoY(x) ==
  [id |-> Coalesce(x.playerId, Coalesce(x.userId, Coalesce(x.name, ""))),
   name |-> Coalesce(x.name, Coalesce(x.nickname, "")),
   x |-> NumberOr0(x.location_x), y |-> 0]
HashedPlayer(x) ==
  [id |-> Coalesce(x.playerId, Coalesce(x.userId, Coalesce(x.name, ""))),
   name |-> Coalesce(x.name, Coalesce(x.nickname, "")),
   x |-> NumberOr0(x.location_x), y |-> NumberOr0(x.location_y)]

\* The camp projection of stableSnapshotForHash.
HashedCamp(x) ==
  [id |-> Coalesce(x.camp_id, ""), guild |-> Coalesce(x.guild, ""),
   mx |-> NumberOr0(x.map_x), my |-> NumberOr0(x.map_y)]

\* stableSnapshotForHash
StableSnapshotForHash(players, camps) ==
  LET p == [i \in 1..Len(players) |-> HashedPlayer(players[i])]
      c == [i \in 1..Len(camps) |-> HashedCamp(camps[i])]
  IN [players |-> StableSort(p, PlayerKeys(p)), camps |-> StableSort(c, CampKeys(c))]

\* JSON.stringify: the members of each object in the order they were
\* written, arrays in order.
JsonStringify(obj) ==
  << "players", [i \in 1..Len(obj.players) |->
                  << "id", obj.players[i].id, "name", obj.players[i].name,
                     "x", obj.players[i].x, "y", obj.players[i].y >>],
     "camps", [i \in 1..Len(obj.camps) |->
                  << "id", obj.camps[i].id, "guild", obj.camps[i].guild,
                     "mx", obj.camps[i].mx, "my", obj.camps[i].my >>] >>

\* sha256 of a text: the digest is taken to be injective.
Sha256(obj) == << "sha256", JsonStringify(obj) >>

\* buildPlayerToGuildMap: later guilds overwrite earlier ones; the admin
\* is written after the members.
BuildPlayerToGuildMap(guildsJson) ==
  [ pid \in NormIds |->
      LET has(i) == \/ \E m \in Range(guildsJson[i].members) : NormalizePalId(m) = pid
                    \/ /\ guildsJson[i].admin # Missing
                       /\ NormalizePalId(guildsJson[i].admin) = pid
          idx == { i \in 1..Len(guildsJson) : has(i) }
      IN IF idx = {} THEN Missing
         ELSE guildsJson[CHOOSE i \in idx : \A j \in idx : j <= i].id ]

\* The legend rows of fetchSnapshotData, with the colours of the table.
LegendGuilds(guildsJson, colors) ==
  LET rows == SelectSeq([ i \in 1..Len(guildsJson) |->
                   [id |-> guildsJson[i].id, name |-> guildsJson[i].name,
                    campCount |-> NumberOr0(guildsJson[i].camp_count),
                    color |-> colors[guildsJson[i].id]] ],
                 LAMBDA g : g.campCount > 0)
  IN StableSort(rows, LegendKeys(rows))

\* fetchSnapshotData after its two fetches: what it returns, given the
\* colour table its pickColorForGuild calls left.
SnapshotData(playersJson, guildsJson, colors) ==
  LET players == playersJson
      camps == ExtractCamps(guildsJson)
  IN [polled |-> TRUE, players |-> players, camps |-> camps,
      playerToGuild |-> BuildPlayerToGuildMap(guildsJson),
      legendGuilds |-> LegendGuilds(guildsJson, colors),
      hash |-> Sha256(StableSnapshotForHash(players, camps)),
      colors |-> colors]

\* A number as a floating-point value.
Num(n) == Quot(n, 1)

\* The camp loop of renderSnapshot: the camps it composites an icon for.
DrawnCamps(camps) ==
  SelectSeq(camps, LAMBDA c : IsNumber(c.map_x) /\ IsNumber(c.map_y))

\* The player loop of renderSnapshot: if (!wx && !wy) continue
DrawnPlayers(players) ==
  SelectSeq(players, LAMBDA q :
    ~(NumberOr0(q.location_x) = 0 /\ NumberOr0(q.location_y) = 0))

\* The guild whose colour a player's icon gets (p.player_id is never set).
GuildOfPlayer(q, playerToGuild) ==
  playerToGuild[NormalizePalId(Coalesce(q.playerId, ""))]

\* The guilds renderSnapshot calls pickColorForGuild for, in order.
RenderedGuilds(data) ==
  LET cs == DrawnCamps(data.camps)
      qs == SelectSeq(DrawnPlayers(data.players),
                      LAMBDA q : GuildOfPlayer(q, data.playerToGuild) # Missing)
  IN [i \in 1..Len(cs) |-> cs[i].guild_id]
       \o [i \in 1..Len(qs) |-> GuildOfPlayer(qs[i], data.playerToGuild)]

\* renderSnapshot: what is composited onto the map, given the colour table
\* its pickColorForGuild calls left: an icon per camp, an icon and a label
\* per player (each at the pixel position it is anchored to), the legend.
RenderSnapshot(data, colors) ==
  LET cs == DrawnCamps(data.camps)
      qs == DrawnPlayers(data.players)
  IN [camps |-> [ i \in 1..Len(cs) |->
                   [at |-> MapToPixel(Num(NumberOr0(cs[i].map_x)), Num(NumberOr0(cs[i].map_y))),
                    color |-> colors[cs[i].guild_id]] ],
      players |-> [ i \in 1..Len(qs) |->
                   [at |-> WorldToPixel(NumberOr0(qs[i].location_x), NumberOr0(qs[i].location_y)),
                    color |-> IF GuildOfPlayer(qs[i], data.playerToGuild) # Missing
                              THEN colors[GuildOfPlayer(qs[i], data.playerToGuild)]
                              ELSE "#FFFFFF",
                    label |-> Coalesce(qs[i].name, Coalesce(qs[i].nickname, "Player"))] ],
      legend |-> [ i \in 1..Len(data.legendGuilds) |->
                   [name |-> data.legendGuilds[i].name,
                    count |-> data.legendGuilds[i].campCount,
                    color |-> data.legendGuilds[i].color] ]]

\* A cycle's fetchSnapshotData returns: loadState, pickColorForGuild for
\* every guild of the feed, saveState, and the data. (Two consecutive
\* cycles are followed.)
Poll ==
  /\ ~prev.polled
  /\ \E playersJson \in PlayerFeeds, guildsJson \in GuildFeeds :
       \E colors \in PickAll(LoadState.colors,
                              [i \in 1..Len(guildsJson) |-> guildsJson[i].id]) :
         /\ SaveState([LoadState EXCEPT !.colors = colors])
         /\ cur' = SnapshotData(playersJson, guildsJson, colors)
  /\ prev' = cur
  /\ drawn' = {}
  /\ UNCHANGED << running, tk, pending, env, nextMsg, calls, cmds, clock,
                  ended, lastEdit, detached, steps, lastPick, coordVars, iconVars >>

\* renderSnapshot for the data of the cycle, on the state just loaded.
Draw ==
  /\ cur.polled
  /\ drawn = {}
  /\ \E colors \in PickAll(LoadState.colors, RenderedGuilds(cur)) :
       /\ SaveState([LoadState EXCEPT !.colors = colors])
       /\ drawn' = {RenderSnapshot(cur, colors)}
  /\ UNCHANGED << running, tk, pending, env, nextMsg, calls, cmds, clock,
                  ended, lastEdit, detached, steps, lastPick, coordVars, iconVars,
                  prev, cur >>

InitSnapshot ==
  /\ file = EmptyState
  /\ env = "all"
  /\ BotIdle
  /\ FnIdle

NextSnapshot == Poll \/ Draw

SpecSnapshot == InitSnapshot /\ [][NextSnapshot]_vars

\* ------------------------------------------------------------ icon cache

\* loadIconsOnce
CAMP_SIZE == 128
PLAYER_SIZE == 112

\* The colours icons are asked in: palette entries (pickColorForGuild) and,
\* for a player without guild, "#FFFFFF".
IconColors == { GUILD_COLORS[1], GUILD_COLORS[2], "#FFFFFF" }

\* colorHex.toLowerCase()
ToLowerCase(colorHex) ==
  CASE colorHex = "#3498DB" -> "#3498db"
    [] colorHex = "#FFFFFF" -> "#ffffff"
    [] OTHER -> colorHex

\* Which cache serves a base icon: tintedCache.camp, tintedCache.player, or
\* none (Null).
CacheFor_Shared(basePath) == "camp"
CacheFor(basePath) ==
  IF basePath = "camp" THEN "camp"
  ELSE IF basePath = "player" THEN "player"
  ELSE Null

\* cache.has(key), cache.get(key), cache.set(key, buf) of a Map kept as a
\* set of entries.
Has(cache, key) == \E e \in cache : e.key = key
Get(cache, key) == (CHOOSE e \in cache : e.key = key).buf
Set(cache, key, buf) ==
  { e \in cache : e.key # key } \cup {[key |-> key, buf |-> buf]}

\* sharp(basePath).resize(size, size, ...).tint(colorHex).png().toBuffer():
\* the bytes are determined by the icon, the size and the colour.
Tinted(basePath, size, colorHex) ==
  [basePath |-> basePath, size |-> size, colorHex |-> colorHex]

\* getTintedIcon returns: from the cache, or after computing and storing.
GetTintedIcon(basePath, size, colorHex) ==
  LET key == ToLowerCase(colorHex)
      c == CacheFor(basePath)
      hit == c # Null /\ Has(tintedCache[c], key)
      buf == IF hit THEN Get(tintedCache[c], key) ELSE Tinted(basePath, size, colorHex)
  IN
  /\ steps < MaxIcons
  /\ steps' = steps + 1
  /\ tintedCache' = IF hit \/ c = Null THEN tintedCache
                    ELSE [tintedCache EXCEPT ![c] = Set(@, key, buf)]
  /\ asked' = asked \cup {Tinted(basePath, size, colorHex)}
  /\ lastIcon' = [n |-> steps + 1, basePath |-> basePath, size |-> size,
                  colorHex |-> colorHex, buf |-> {buf}, computed |-> ~hit]
  /\ UNCHANGED << botVars, lastPick, coordVars, snapVars >>

\* The asset cannot be decoded: getTintedIcon throws before cache.set.
GetTintedIconFail(basePath, colorHex) ==
  LET c == CacheFor(basePath) IN
  /\ steps < MaxIcons
  /\ ~(c # Null /\ Has(tintedCache[c], ToLowerCase(colorHex)))
  /\ steps' = steps + 1
  /\ UNCHANGED << botVars, lastPick, coordVars, snapVars, iconVars >>

\* The two calls of renderSnapshot: a camp's icon, a player's icon.
CampIcon(color) == GetTintedIcon("camp", CAMP_SIZE, color)
PlayerIcon(color) == GetTintedIcon("player", PLAYER_SIZE, color)

InitIcons ==
  /\ file = EmptyState
  /\ env = "all"
  /\ BotIdle
  /\ FnIdle

NextIcons ==
  \/ \E color \in IconColors \ {"#FFFFFF"} : CampIcon(color)
  \/ \E color \in IconColors : PlayerIcon(color)
  \/ \E basePath \in {"camp", "player"}, color \in IconColors :
       GetTintedIconFail(basePath, color)

SpecIcons == InitIcons /\ [][NextIcons]_vars

\* ------------------------------------------------------------ properties

InFlight == { ctx \in Ctx : tk[ctx].pc # "idle" }

\* The pcs inside doUpdateForGuild.
UpdatePcs == {"guildFetch", "chanFetch", "msgFetch", "send", "render", "edit"}

\* The step is one of caller ctx's cycle.
Stepped(ctx) == tk'[ctx] # tk[ctx]

Kinds(fx, g) == { e.kind : e \in { x \in fx : x.guild = g } }

\* C1: at most one cycle is in flight at any time, and a tick() call made
\* while one is in flight changes nothing: it starts no cycle, touches
\* neither the file nor the running cycle, and leaves nothing queued.
C1_SingleCycle ==
  [][ /\ Cardinality(InFlight') <= 1
      /\ (InFlight' # {}) = running'
      /\ (calls' # calls /\ InFlight # {})
           => /\ UNCHANGED << file, running, tk, nextMsg, clock, ended >>
              /\ pending' \subseteq pending ]_vars

\* A call was dropped while a cycle is in flight.
C1_Witness == InFlight # {} /\ running /\ calls > clock

\* C2 (as claimed): with no command ever issued, when the previous cycle
\* edited a guild's message for a fingerprint, the next cycle, given the same
\* fingerprint, does not render for that guild.
C2_SecondCycleSkips ==
  \A ctx \in Ctx :
    LET t == tk[ctx] IN
    ~ ( /\ t.pc \in {"render", "edit"}
        /\ t.force = Null
        /\ cmds = 0
        /\ lastEdit.guild = Cur(t).guildId
        /\ lastEdit.hash = t.data.hash
        /\ lastEdit.cycle = clock - 1 )

\* The step is a successful msg.edit of caller ctx's cycle: the cycle goes
\* on with the edit on its record, or (command-free runs) the edit is the
\* latest one on record.
EditDone(ctx) ==
  LET g == Cur(tk[ctx]).guildId IN
  /\ tk[ctx].pc = "edit"
  /\ \/ "edit" \in Kinds(tk'[ctx].fx, g)
     \/ lastEdit' = [guild |-> g, hash |-> tk[ctx].data.hash, cycle |-> clock]

\* C3 (as claimed): right after a successful edit for a guild, the file's
\* binding of that guild records the cycle's fingerprint and a timestamp.
C3_EditPersistsHash ==
  [][ \A ctx \in Ctx :
        LET t == tk[ctx]
            g == Cur(t).guildId
        IN (t.pc = "edit" /\ EditDone(ctx))
             => /\ HasKey(file', g)
                /\ file'.guilds[g].lastHash = t.data.hash
                /\ file'.guilds[g].lastUpdatedAt # NullTime ]_vars

\* The message of the forced guild has just been ensured (fetched or posted).
Ensured(ctx) ==
  \/ tk[ctx].pc = "msgFetch" /\ Stepped(ctx) /\ tk'[ctx].pc # "send"
  \/ tk[ctx].pc = "send" /\ nextMsg' # nextMsg

\* C4: a forced cycle only ever works on the forced guild, never takes the
\* early return, and calls the renderer as soon as the message is ensured,
\* whatever lastHash the binding records.
C4_ForcedCycle ==
  [][ \A ctx \in Ctx :
        LET t == tk'[ctx] IN
        t.force # Null
          => /\ \A e \in t.fx : e.guild = t.force /\ e.kind # "skip"
             /\ t.pc \in UpdatePcs => Cur(t).guildId = t.force
             /\ Ensured(ctx) => t.pc = "render" /\ "render" \in Kinds(t.fx, t.force) ]_vars

\* A forced cycle over two bindings has rendered for the forced guild and
\* is editing its message although the recorded lastHash equals the
\* fingerprint.
C4_Witness ==
  \E ctx \in Ctx :
    LET t == tk[ctx] IN
    /\ t.force = "g1" /\ Len(t.entries) = 2 /\ t.pc = "edit"
    /\ Cur(t).guildId = "g1"
    /\ "render" \in Kinds(t.fx, "g1")
    /\ Cur(t).cfg.lastHash = t.data.hash
    /\ file.guilds["g1"].lastHash = t.data.hash

\* C5: while a non-forced cycle reconciles a guild whose binding (the cfg it
\* tests) records the cycle's fingerprint, it never reaches the renderer or
\* the edit, and the only write it makes is the placeholder step's: the
\* state it loaded with the new message id, lastHash and lastUpdatedAt as
\* loaded.
C5_UnchangedSkips ==
  [][ \A ctx \in Ctx :
        LET t == tk[ctx]
            g == Cur(t).guildId
        IN ( /\ t.pc \in UpdatePcs
             /\ Stepped(ctx)
             /\ ~IsForced(Cur(t), t.force)
             /\ Cur(t).cfg.lastHash # Null
             /\ Cur(t).cfg.lastHash = t.data.hash )
             => /\ tk'[ctx].pc \notin {"render", "edit"}
                /\ Kinds(tk'[ctx].fx, g) \cap {"render", "edit"} = {}
                /\ file' # file
                     => /\ t.pc = "send"
                        /\ \E id \in MsgIds :
                             file' = [t.fresh EXCEPT !.guilds[g].messageId = id]
                        /\ file'.guilds[g].lastHash = t.fresh.guilds[g].lastHash
                        /\ file'.guilds[g].lastUpdatedAt = t.fresh.guilds[g].lastUpdatedAt ]_vars

\* A non-forced cycle posted a placeholder and then returned early.
C5_Witness ==
  \E ctx \in Ctx :
    tk[ctx].force = Null /\ {"send", "skip"} \subseteq Kinds(tk[ctx].fx, "g1")

\* C6 (as claimed): a guild that was detached and not attached since has no
\* binding in the file, and no cycle posts or edits a message for it.
C6_DetachedStaysDetached ==
  [][ \A g \in Guilds :
        /\ g \in detached' => ~HasKey(file', g)
        /\ (g \in detached /\ g \in detached')
             => \A ctx \in Ctx :
                  Kinds(tk'[ctx].fx, g) \cap {"send", "edit"} \subseteq Kinds(tk[ctx].fx, g) ]_vars

\* C7 (as claimed): the tick() call of every attach starts a forced cycle
\* for the attached guild.
C7_AttachAlwaysForces ==
  [][ \A g \in Guilds :
        (<< g, "add" >> \in pending /\ << g, "add" >> \notin pending')
          => /\ clock' = clock + 1
             /\ tk'["cmd"].pc # "idle"
             /\ tk'["cmd"].force = g ]_vars

\* C7 (amended): an attach writes the binding with its channel and cleared
\* messageId, lastHash and lastUpdatedAt, leaving the other bindings alone;
\* its tick() call starts a forced cycle for the guild over the bindings of
\* the file when no cycle is in flight (an empty file ends it at once), and
\* is dropped, changing nothing, when one is.
C7_AttachForcesUnlessBusy ==
  [][ \A g \in Guilds :
        /\ (cmds' # cmds /\ << g, "add" >> \in pending' \ pending)
             => /\ HasKey(file', g)
                /\ \E c \in Channels :
                     file'.guilds[g] = [channelId |-> c, messageId |-> NoMsg,
                                        lastHash |-> Null, lastUpdatedAt |-> NullTime]
                /\ \A h \in Guilds \ {g} :
                     file'.guilds[h] = file.guilds[h] /\ HasKey(file', h) = HasKey(file, h)
        /\ (<< g, "add" >> \in pending /\ << g, "add" >> \notin pending')
             => IF InFlight # {}
                THEN UNCHANGED << file, running, tk, clock, ended >>
                ELSE /\ clock' = clock + 1
                     /\ IF file.order = << >>
                        THEN InFlight' = {} /\ ~running' /\ ended' = "empty"
                        ELSE /\ running'
                             /\ tk'["cmd"].pc = "fetchPlayers"
                             /\ tk'["cmd"].force = g
                             /\ tk'["cmd"].entries = Entries(file) ]_vars

\* The forced cycle of an attach to a new channel has posted the placeholder
\* there and called the renderer.
C7_Witness ==
  /\ tk["cmd"].force = "g1"
  /\ HasKey(file, "g1") /\ file.guilds["g1"].channelId = "c2"
  /\ Fx("send", "g1", "c2") \in tk["cmd"].fx
  /\ Fx("render", "g1", "c2") \in tk["cmd"].fx

\* A fetch step of the cycle that returned data.
FetchSucceeded(ctx) ==
  \/ tk[ctx].pc = "fetchPlayers" /\ tk'[ctx].pc = "fetchGuilds"
  \/ /\ tk[ctx].pc = "fetchGuilds"
     /\ \/ tk'[ctx].pc = "guildFetch" /\ tk'[ctx].data # NoData
        \/ tk'[ctx].pc = "idle" /\ ended' = "done"

\* C8: a fetch that fails ends the cycle on the spot: nothing was posted,
\* rendered or edited in it, the file is as it was, tick() returns with
\* running cleared so that the next call starts a cycle; and without the
\* players (guilds) credential no cycle gets past fetchPlayers (fetchGuilds).
C8_FetchFailureAborts ==
  [][ \A ctx \in Ctx :
        /\ (tk[ctx].pc \in {"fetchPlayers", "fetchGuilds"} /\ Stepped(ctx)
               /\ ~FetchSucceeded(ctx))
             => /\ tk[ctx].fx = {}
                /\ tk'[ctx] = IdleTick
                /\ InFlight' = {} /\ ~running' /\ ~TickGuard'
                /\ ended' = "error"
                /\ UNCHANGED << file, nextMsg, lastEdit >>
        /\ env = "noPlayers" => tk'[ctx].pc \in {"idle", "fetchPlayers"}
        /\ env = "noGuilds" => tk'[ctx].pc \in {"idle", "fetchPlayers", "fetchGuilds"} ]_vars

\* After a cycle that a fetch failure ended, a later cycle is rendering.
C8_Witness ==
  /\ ended = "error"
  /\ clock >= 2
  /\ \E ctx \in Ctx : tk[ctx].pc = "render"

\* The entries after entry i that the loop of cycle t has to reconcile.
Rest(t, i) == { j \in (i + 1)..Len(t.entries) : Eligible(t.entries[j], t.force) }

\* C9: whenever doUpdateForGuild returns or rejects, the loop goes on with
\* the next binding it has to reconcile, on the state the file then holds,
\* and the cycle ends only when there is none left and doUpdateForGuild was
\* called for every such binding.
C9_FailureIsolated ==
  [][ \A ctx \in Ctx :
        LET t == tk[ctx]
            u == tk'[ctx]
        IN (t.pc \in UpdatePcs /\ Stepped(ctx) /\ (u.pc = "idle" \/ u.idx # t.idx))
             => IF Rest(t, t.idx) = {}
                THEN /\ u.pc = "idle" /\ ended' = "done" /\ ~running'
                     /\ t.visited = EligibleGuilds(t.entries, t.force)
                ELSE /\ u.pc = "guildFetch"
                     /\ u.idx \in Rest(t, t.idx)
                     /\ \A j \in Rest(t, t.idx) : u.idx <= j
                     /\ u.visited = t.visited \cup {u.entries[u.idx].guildId}
                     /\ u.fresh = file'
                     /\ running' = running ]_vars

\* A non-forced cycle reconciles g2 after g1 failed (g1 was neither skipped
\* nor edited).
C9_Witness ==
  \E ctx \in Ctx :
    LET t == tk[ctx] IN
    /\ t.force = Null
    /\ t.pc \in UpdatePcs
    /\ Cur(t).guildId = "g2"
    /\ "g1" \in t.visited
    /\ Kinds(t.fx, "g1") \cap {"skip", "edit"} = {}

\* C10: a colour of the persisted table never changes, whatever step is
\* taken, and pickColorForGuild for a guild that has one leaves the table
\* as it is.
C10_ColorStable ==
  [][ \A p \in PalIds :
        file.colors[p] # NoColor
          => /\ file'.colors[p] = file.colors[p]
             /\ PickColorForGuild(file.colors, p) = {file.colors} ]_vars

\* A second cycle picked colours for p2 then p1: p1 kept the first palette
\* entry it got in the first cycle, p2 got the second.
C10_Witness ==
  \E ctx \in Ctx :
    /\ clock >= 2
    /\ tk[ctx].pc \in UpdatePcs
    /\ tk[ctx].data.guildsJson = << "p2", "p1" >>
    /\ file.colors["p1"] = GUILD_COLORS[1]
    /\ file.colors["p2"] = GUILD_COLORS[2]

\* The guilds that have a colour in a table.
Colored(colors) == { p \in PalIds : colors[p] # NoColor }

\* Palette positions no guild of the table uses.
FreeSlots(colors) ==
  { i \in 1..Len(GUILD_COLORS) : GUILD_COLORS[i] \notin UsedColors(colors) }

\* C11: a pickColorForGuild call for a guild without a colour, while some
\* palette entry is unused, gives it the first unused entry in palette
\* order, writes exactly that assignment to the persisted table and returns
\* it; and while the table holds no more guilds than the palette has
\* entries, no two guilds share a colour.
C11_FirstUnused ==
  [][ /\ \A p \in PalIds :
           (steps' # steps /\ lastPick'.guild = p /\ file.colors[p] = NoColor
              /\ FreeSlots(file.colors) # {})
             => /\ \E i \in FreeSlots(file.colors) :
                     /\ \A j \in FreeSlots(file.colors) : i <= j
                     /\ file'.colors[p] = GUILD_COLORS[i]
                /\ lastPick'.color = file'.colors[p]
                /\ \A q \in PalIds \ {p} : file'.colors[q] = file.colors[q]
      /\ Cardinality(Colored(file'.colors)) <= Len(GUILD_COLORS)
           => \A p, q \in Colored(file'.colors) :
                p # q => file'.colors[p] # file'.colors[q] ]_vars

\* A new guild got the last palette entry: the table holds as many guilds
\* as the palette has entries, all with different colours.
C11_Witness ==
  /\ lastPick = [guild |-> "p1", color |-> GUILD_COLORS[Len(GUILD_COLORS)]]
  /\ file.colors["p1"] = GUILD_COLORS[Len(GUILD_COLORS)]
  /\ Cardinality(Colored(file.colors)) = Len(GUILD_COLORS)
  /\ Cardinality(UsedColors(file.colors)) = Len(GUILD_COLORS)

\* C17: what worldToPixel returns for (worldX, worldY) is mapToPixel of
\* worldToMap(worldX, worldY), with mapX = (worldY - transl_y) / scale and
\* mapY = (worldX + transl_x) / scale, px = A * mapX + B and
\* py = C * mapY + D: px is computed from worldY alone, py from worldX alone.
C17_Composition ==
  pixel # {}
    => LET mapX == Quot(point.y - 158000, 459)
           mapY == Quot(point.x + 123888, 459)
       IN /\ WorldToMap(point.x, point.y) = [mapX |-> mapX, mapY |-> mapY]
          /\ pixel = {MapToPixel(mapX, mapY)}
          /\ \A r \in pixel :
               /\ r.px = Lin("A", Quot(point.y - 158000, 459), "B")
               /\ r.py = Lin("C", Quot(point.x + 123888, 459), "D")
               /\ \A x \in Worlds : WorldToPixel(x, point.y).px = r.px
               /\ \A y \in Worlds : WorldToPixel(point.x, y).py = r.py

\* A position with different coordinates has been converted: its px comes
\* from worldY, its py from worldX.
C17_Witness ==
  /\ point = [x |-> 1000, y |-> 158000]
  /\ pixel = {[px |-> Lin("A", Quot(0, 459), "B"), py |-> Lin("C", Quot(124888, 459), "D")]}

\* How often a value occurs in a list, and whether two lists are
\* permutations of each other.
Count(seq, e) == Cardinality({ i \in 1..Len(seq) : seq[i] = e })
IsPermutation(a, b) ==
  /\ Len(a) = Len(b)
  /\ \A e \in Range(a) \cup Range(b) : Count(a, e) = Count(b, e)

\* Two consecutive cycles have their data.
BothPolled == prev.polled /\ cur.polled

\* C12 (as claimed): when the players and the camps of two snapshots are the
\* same up to their order, the two fingerprints are equal.
C12_PermutationInvariant ==
  ( /\ BothPolled
    /\ IsPermutation(prev.players, cur.players)
    /\ IsPermutation(prev.camps, cur.camps) )
    => prev.hash = cur.hash

\* What the feeds say of a player or a camp: identity, name, coordinates
\* (an absent value is no value, not zero or the empty string).
PlayerFacts(q) ==
  [id |-> Coalesce(q.playerId, Coalesce(q.userId, q.name)),
   name |-> Coalesce(q.name, q.nickname),
   x |-> q.location_x, y |-> q.location_y]
CampFacts(c) == [id |-> c.camp_id, name |-> c.guild, x |-> c.map_x, y |-> c.map_y]
Facts(data) ==
  [players |-> [i \in 1..Len(data.players) |-> PlayerFacts(data.players[i])],
   camps |-> [i \in 1..Len(data.camps) |-> CampFacts(data.camps[i])]]

\* C13 (as claimed): when two snapshots differ in the identity, the name or
\* a coordinate of some player or camp, their fingerprints differ.
C13_DifferenceChangesHash ==
  ( /\ BothPolled
    /\ \/ ~IsPermutation(Facts(prev).players, Facts(cur).players)
       \/ ~IsPermutation(Facts(prev).camps, Facts(cur).camps) )
    => prev.hash # cur.hash

\* The same facts as the fingerprint is meant to see them: an absent
\* coordinate counts as zero, an absent identity or name as the empty string.
Coerced(f) ==
  [id |-> IF f.id = Missing THEN "" ELSE f.id,
   name |-> IF f.name = Missing THEN "" ELSE f.name,
   x |-> NumberOr0(f.x), y |-> NumberOr0(f.y)]
CoercedFacts(data) ==
  [players |-> [i \in 1..Len(data.players) |-> Coerced(PlayerFacts(data.players[i]))],
   camps |-> [i \in 1..Len(data.camps) |-> Coerced(CampFacts(data.camps[i]))]]

\* C13 (amended): when two snapshots differ in the identity, the name or a
\* coordinate of some player or camp, with an absent coordinate counted as
\* zero and an absent identity or name as the empty string, their canonical
\* contents and so their fingerprints differ.
C13_CoercedDifferenceChangesHash ==
  ( /\ BothPolled
    /\ \/ ~IsPermutation(CoercedFacts(prev).players, CoercedFacts(cur).players)
       \/ ~IsPermutation(CoercedFacts(prev).camps, CoercedFacts(cur).camps) )
    => prev.hash # cur.hash

\* Two consecutive snapshots with the same player and the same camp, the
\* camp having moved to the map's origin: the fingerprints differ.
C13_Witness ==
  /\ BothPolled
  /\ Len(prev.players) = 1 /\ prev.players = cur.players
  /\ Len(prev.camps) = 1 /\ Len(cur.camps) = 1
  /\ prev.camps[1].camp_id = cur.camps[1].camp_id
  /\ prev.camps[1].map_x = Some(10) /\ cur.camps[1].map_x = Some(0)
  /\ prev.hash # cur.hash

\* C14 (as claimed): when two consecutive cycles have equal fingerprints
\* and the colour table is the same, renderSnapshot would composite the
\* same camp icons and player icons (place, colour, label), in whatever
\* order, and the same legend rows for both.
C14_EqualHashEqualPicture ==
  ( /\ BothPolled
    /\ prev.hash = cur.hash
    /\ prev.colors = cur.colors )
    => LET a == RenderSnapshot(prev, cur.colors)
           b == RenderSnapshot(cur, cur.colors)
       IN /\ IsPermutation(a.camps, b.camps)
          /\ IsPermutation(a.players, b.players)
          /\ a.legend = b.legend

\* A position that is present and not zero.
Located(x, y) ==
  /\ x # None /\ y # None
  /\ ~(NumberOr0(x) = 0 /\ NumberOr0(y) = 0)

\* C16 (as claimed): renderSnapshot composites an icon for exactly the
\* camps whose map position, and the players whose world position, is
\* present and nonzero.
C16_SkipsMissingOrZero ==
  \A r \in drawn :
    LET cs == SelectSeq(cur.camps, LAMBDA c : Located(c.map_x, c.map_y))
        qs == SelectSeq(cur.players, LAMBDA q : Located(q.location_x, q.location_y))
    IN /\ Len(r.camps) = Len(cs)
       /\ \A i \in 1..Len(cs) :
            r.camps[i].at = MapToPixel(Num(NumberOr0(cs[i].map_x)), Num(NumberOr0(cs[i].map_y)))
       /\ Len(r.players) = Len(qs)
       /\ \A i \in 1..Len(qs) :
            r.players[i].at = WorldToPixel(NumberOr0(qs[i].location_x), NumberOr0(qs[i].location_y))

C18_PlaceholderIffNeeded ==
  [][ /\ \A ctx \in Ctx :
           LET t == tk[ctx]
               u == tk'[ctx]
               g == Cur(t).guildId
           IN Stepped(ctx) =>
              /\ (t.pc = "chanFetch" /\ u.pc = "msgFetch")
                   => HasKey(t.fresh, g) /\ t.fresh.guilds[g].messageId # NoMsg
              /\ (t.pc = "chanFetch" /\ u.pc = "send")
                   => HasKey(t.fresh, g) /\ t.fresh.guilds[g].messageId = NoMsg
              /\ (t.pc = "chanFetch" /\ HasKey(t.fresh, g) /\ u.pc # "idle" /\ u.idx = t.idx)
                   => u.pc \in {"msgFetch", "send"}
              /\ t.pc \in {"chanFetch", "msgFetch"}
                   => nextMsg' = nextMsg /\ file' = file
              /\ (t.pc = "msgFetch" /\ u.pc # "send")
                   => t.fresh.guilds[g].messageId.ch = Cur(t).cfg.channelId
              /\ (t.pc = "send" /\ nextMsg' # nextMsg)
                   => LET id == [ch |-> Cur(t).cfg.channelId, n |-> nextMsg]
                      IN /\ HasKey(file', g)
                         /\ file'.guilds[g].messageId = id
                         /\ (u.pc # "idle" /\ u.idx = t.idx) => u.msg = id
      /\ nextMsg' # nextMsg
           => /\ nextMsg' = nextMsg + 1
              /\ \E ctx \in Ctx : tk[ctx].pc = "send" /\ Stepped(ctx) ]_vars

\* The recorded message of g1 could not be fetched: a placeholder was sent
\* and its id replaced the recorded one.
C18_Witness ==
  \E ctx \in Ctx :
    LET t == tk[ctx] IN
    /\ t.pc = "render" /\ Cur(t).guildId = "g1"
    /\ Cur(t).cfg.messageId = [ch |-> "c1", n |-> 0]
    /\ t.msg = [ch |-> "c1", n |-> 1]
    /\ file.guilds["g1"].messageId = [ch |-> "c1", n |-> 1]

\* The phases of a cycle: fetching the players, fetching the guilds, the loop.
Phase(pc) ==
  CASE pc = "idle" -> 0
    [] pc = "fetchPlayers" -> 1
    [] pc = "fetchGuilds" -> 2
    [] OTHER -> 3

\* C19: a cycle goes through the player fetch, the guild fetch and the loop
\* in that order and never back, each fetch being done once it is left;
\* the loop works on the one snapshot the fetches returned, for every
\* destination; and a tick() call that finds no binding ends at once, with
\* no fetch and nothing changed.
C19_OneSnapshotPerCycle ==
  [][ /\ \A ctx \in Ctx :
           LET t == tk[ctx]
               u == tk'[ctx]
           IN Stepped(ctx) =>
              /\ (t.pc # "idle" /\ u.pc # "idle") => Phase(u.pc) >= Phase(t.pc)
              /\ (Phase(t.pc) \in {1, 2} /\ u.pc # "idle") => Phase(u.pc) > Phase(t.pc)
              /\ (t.pc = "idle") => u.pc = "fetchPlayers"
              /\ Phase(u.pc) = 3 => u.data # NoData
              /\ (Phase(t.pc) = 3 /\ Phase(u.pc) = 3)
                   => u.data = t.data /\ u.entries = [i \in 1..Len(t.entries) |->
                                            [t.entries[i] EXCEPT !.cfg = u.entries[i].cfg]]
      /\ (calls' # calls /\ ~running /\ file.order = << >>)
           => /\ UNCHANGED << file, tk, running, nextMsg >>
              /\ ended' = "empty" ]_vars

\* A cycle over two bindings rendered for g1 and is now reconciling g2, with
\* the snapshot it fetched once.
C19_Witness ==
  \E ctx \in Ctx :
    LET t == tk[ctx] IN
    /\ t.pc = "render" /\ Cur(t).guildId = "g2"
    /\ {"render", "edit"} \subseteq Kinds(t.fx, "g1")
    /\ "render" \in Kinds(t.fx, "g2")
    /\ t.data # NoData

\* C20 (as claimed): a step of a cycle that is reconciling a destination
\* leaves the persisted bindings of all other destinations as they are.
C20_OnlyOwnBinding ==
  [][ \A ctx \in Ctx :
        LET t == tk[ctx] IN
        (t.pc \in UpdatePcs /\ Stepped(ctx))
          => \A h \in Guilds \ {Cur(t).guildId} :
               /\ HasKey(file', h) = HasKey(file, h)
               /\ file'.guilds[h] = file.guilds[h] ]_vars

\* C21: whenever a cycle ends (the loop is through, or a fetch error was
\* caught) and whenever a tick() call finds no binding, running is false
\* afterwards; running is never true without a cycle in flight; and a
\* tick() call made while no cycle is in flight is never dropped: it starts
\* a cycle (which ends at once when there is no binding).
C21_GuardReleased ==
  [][ /\ \A ctx \in Ctx :
           (tk[ctx].pc # "idle" /\ tk'[ctx].pc = "idle")
             => ~running' /\ ended' \in {"done", "error"}
      /\ running' => InFlight' # {}
      /\ (calls' # calls /\ InFlight = {})
           => /\ clock' = clock + 1
              /\ IF file.order = << >>
                 THEN ~running' /\ InFlight' = {} /\ ended' = "empty"
                 ELSE running' /\ Cardinality(InFlight') = 1 ]_vars

\* After a cycle that ended normally, the second tick() call was not
\* dropped: its cycle is in flight.
C21_Witness ==
  /\ ended = "done"
  /\ calls = 2 /\ clock = 2
  /\ running /\ InFlight # {}

====
